---------------------------- MODULE Spec2Model ----------------------------
(***************************************************************************)
(* Idempotency persistence layer                                           *)
(* (aws_lambda_powertools/utilities/idempotency/persistence/base.py).      *)
(*                                                                         *)
(* Several execution environments (Procs), each with its own               *)
(* BasePersistenceLayer instance and its own local cache, share one        *)
(* durable store and one wall clock.  Every public method of the layer is  *)
(* one action.  Each method performs exactly one store operation, the rest *)
(* of its body touches only the caller's own cache, so an atomic action    *)
(* per method covers the interleavings of the store operations; SpecCaller *)
(* splits save_inprogress at its store call to show this for the insert.   *)
(***************************************************************************)
EXTENDS Integers, Sequences, FiniteSets, TLC

(***************************************************************************)
(* Bounds of the model.                                                    *)
(***************************************************************************)
MaxClock == 3

Procs == {"p1", "p2"}

\* use_local_cache per process.  Caches are private to their process, and a
\* caching process changes the store no more than a cache-less one, so one
\* process that may cache, beside one that never does, covers the rest.
CacheSettings == { [p \in Procs |-> p = "p1"], [p \in Procs |-> FALSE] }

(***************************************************************************)
(* Construction-time settings (BasePersistenceLayer.__init__).  The TTL    *)
(* and the cache capacity are scaled down from 3600 and 256.               *)
(***************************************************************************)
expires_after_seconds == 1

local_cache_max_items == 1

event_key_jmespath == "id"

payload_validation_jmespath == "body"

STATUS_CONSTANTS == [INPROGRESS |-> "INPROGRESS", COMPLETED |-> "COMPLETED", EXPIRED |-> "EXPIRED"]

StatusValues == {STATUS_CONSTANTS.INPROGRESS, STATUS_CONSTANTS.COMPLETED, STATUS_CONSTANTS.EXPIRED}

(***************************************************************************)
(* Python values.  None for an integer field is NoneInt; a JSON value is   *)
(* null, a number or a mapping whose items keep their insertion order.     *)
(***************************************************************************)
NoneInt == -1

JNull == [t |-> "null", v |-> 0, items |-> <<>>]

JNum(n) == [t |-> "num", v |-> n, items |-> <<>>]

JObj(items) == [t |-> "obj", v |-> 0, items |-> items]

Item(k, v) == [k |-> k, v |-> v]

Digits == <<"0", "1", "2", "3", "4", "5", "6", "7", "8", "9">>

IntToStr(n) == Digits[n + 1]

\* jmespath: the value of field `path` of the event, None when nothing matches.
jmespath_search(path, event) ==
    IF \E i \in 1..Len(event.items) : event.items[i].k = path
    THEN JNum(event.items[CHOOSE i \in 1..Len(event.items) : event.items[i].k = path].v)
    ELSE JNull

RECURSIVE dumps_items(_)
dumps_items(items) ==
    IF items = <<>> THEN <<>>
    ELSE <<Head(items).k, ":", IntToStr(Head(items).v)>>
         \o (IF Tail(items) = <<>> THEN <<>> ELSE <<",">>)
         \o dumps_items(Tail(items))

\* json.dumps(data, cls=Encoder): the text as a sequence of tokens; a mapping
\* is written in its insertion order (no sort_keys).
json_dumps(data) ==
    CASE data.t = "null" -> <<"null">>
      [] data.t = "num"  -> <<IntToStr(data.v)>>
      [] OTHER           -> <<"{">> \o dumps_items(data.items) \o <<"}">>

\* The digest is modelled as collision free: the tagged text it digests.
_generate_hash(data) == <<"md5">> \o json_dumps(data)

(***************************************************************************)
(* Inputs: lambda events and handler results.                              *)
(***************************************************************************)
Events ==
    { JObj(<<Item("id", 1), Item("body", 1)>>),
      JObj(<<Item("id", 1), Item("body", 2)>>),
      JObj(<<Item("id", 2), Item("body", 1)>>) }

\* The handler is deterministic: its response echoes the body of its event.
Results(event) == { JObj(<<Item("v", jmespath_search("body", event).v)>>) }

Keys == { _generate_hash(jmespath_search(event_key_jmespath, e)) : e \in Events }

(***************************************************************************)
(* DataRecord                                                              *)
(***************************************************************************)
DataRecord(idempotency_key, status, expiry_timestamp, response_data, payload_hash) ==
    [idempotency_key  |-> idempotency_key,
     _status          |-> status,
     expiry_timestamp |-> expiry_timestamp,
     response_data    |-> response_data,
     payload_hash     |-> payload_hash]

\* None where a DataRecord is expected (no record, nothing returned).
NoRecord == DataRecord(<<>>, "", NoneInt, <<>>, <<>>)

\* bool(self.expiry_timestamp and now > self.expiry_timestamp): None and 0
\* are both falsy.
is_expired(rec, t) ==
    /\ rec.expiry_timestamp # NoneInt
    /\ rec.expiry_timestamp # 0
    /\ t > rec.expiry_timestamp

\* DataRecord.status; the raised IdempotencyInvalidStatusError is returned
\* as its name.
status(rec, t) ==
    IF is_expired(rec, t) THEN STATUS_CONSTANTS.EXPIRED
    ELSE IF rec._status \in StatusValues THEN rec._status
    ELSE "IdempotencyInvalidStatusError"

(***************************************************************************)
(* LRUDict (shared/cache_dict.py): an ordered mapping, oldest first, as a  *)
(* sequence of records.                                                    *)
(***************************************************************************)
LRU_contains(c, key) == \E i \in 1..Len(c) : c[i].idempotency_key = key

LRU_lookup(c, key) ==
    IF LRU_contains(c, key)
    THEN c[CHOOSE i \in 1..Len(c) : c[i].idempotency_key = key]
    ELSE NoRecord

LRU_remove(c, key) == SelectSeq(c, LAMBDA r : r.idempotency_key # key)

\* get(key): a found item moves to the end.
LRU_get(c, key) ==
    IF LRU_contains(c, key)
    THEN [item |-> LRU_lookup(c, key), cache |-> Append(LRU_remove(c, key), LRU_lookup(c, key))]
    ELSE [item |-> NoRecord, cache |-> c]

\* self[key] = value: the key moves to the end; over capacity the oldest goes.
LRU_setitem(c, key, value) ==
    LET c2 == Append(LRU_remove(c, key), value)
    IN  IF Len(c2) > local_cache_max_items THEN Tail(c2) ELSE c2

(***************************************************************************)
(* The persistence store: the four abstract operations, by their           *)
(* documented contract.  st maps each key to its record or to NoRecord;    *)
(* the store reads the same clock as the callers.                          *)
(***************************************************************************)
_get_record(st, idempotency_key) ==
    IF st[idempotency_key] = NoRecord
    THEN [out |-> "IdempotencyItemNotFoundError", rec |-> NoRecord]
    ELSE [out |-> "ok", rec |-> st[idempotency_key]]

_put_record(st, data_record, t) ==
    IF st[data_record.idempotency_key] = NoRecord
       \/ is_expired(st[data_record.idempotency_key], t)
    THEN [out |-> "ok", store |-> [st EXCEPT ![data_record.idempotency_key] = data_record]]
    ELSE [out |-> "IdempotencyItemAlreadyExistsError", store |-> st]

_update_record(st, data_record) ==
    [st EXCEPT ![data_record.idempotency_key] = data_record]

_delete_record(st, data_record) ==
    [st EXCEPT ![data_record.idempotency_key] = NoRecord]

(***************************************************************************)
(* BasePersistenceLayer: helpers.  use is self.use_local_cache, enabled is *)
(* self.payload_validation_enabled, c the caller's cache, t the clock.     *)
(***************************************************************************)
\* A slip: when the query matches nothing, the whole event is hashed.
_get_hashed_idempotency_key_whole_event(lambda_event) ==
    LET data == IF event_key_jmespath # ""
                   /\ jmespath_search(event_key_jmespath, lambda_event) # JNull
                THEN jmespath_search(event_key_jmespath, lambda_event)
                ELSE lambda_event
    IN  _generate_hash(data)

_get_hashed_idempotency_key(lambda_event) ==
    LET data == IF event_key_jmespath # ""
                THEN jmespath_search(event_key_jmespath, lambda_event)
                ELSE lambda_event
    IN  _generate_hash(data)

_get_hashed_payload(enabled, lambda_event) ==
    IF ~enabled THEN <<>>
    ELSE _generate_hash(jmespath_search(payload_validation_jmespath, lambda_event))

\* The raised IdempotencyValidationError is returned as its name.
_validate_payload(enabled, lambda_event, data_record) ==
    IF enabled /\ data_record.payload_hash # _get_hashed_payload(enabled, lambda_event)
    THEN "IdempotencyValidationError"
    ELSE "ok"

_get_expiry_timestamp(t) == t + expires_after_seconds

_save_to_cache(use, c, data_record, t) ==
    IF ~use THEN [out |-> "ok", cache |-> c]
    ELSE IF status(data_record, t) = "IdempotencyInvalidStatusError"
         THEN [out |-> "IdempotencyInvalidStatusError", cache |-> c]
    ELSE IF status(data_record, t) = STATUS_CONSTANTS.INPROGRESS
         THEN [out |-> "ok", cache |-> c]
    ELSE [out |-> "ok", cache |-> LRU_setitem(c, data_record.idempotency_key, data_record)]

\* del self._cache[key]: a mapping raises KeyError for a key it does not hold.
_delete_from_cache(use, c, idempotency_key) ==
    IF ~use THEN [out |-> "ok", cache |-> c]
    ELSE IF LRU_contains(c, idempotency_key)
         THEN [out |-> "ok", cache |-> LRU_remove(c, idempotency_key)]
    ELSE [out |-> "KeyError", cache |-> c]

\* A slip: a cached record is returned without looking at its expiry.
_retrieve_from_cache_ignores_expiry(use, c, idempotency_key, t) ==
    IF ~use THEN [rec |-> NoRecord, cache |-> c]
    ELSE [rec |-> LRU_get(c, idempotency_key).item, cache |-> LRU_get(c, idempotency_key).cache]

\* A slip: an expired entry is reported as a miss but stays in the cache.
_retrieve_from_cache_keeps_expired(use, c, idempotency_key, t) ==
    IF ~use THEN [rec |-> NoRecord, cache |-> c]
    ELSE LET g == LRU_get(c, idempotency_key)
         IN  IF g.item = NoRecord THEN [rec |-> NoRecord, cache |-> g.cache]
             ELSE IF ~is_expired(g.item, t) THEN [rec |-> g.item, cache |-> g.cache]
             ELSE [rec |-> NoRecord, cache |-> g.cache]

_retrieve_from_cache(use, c, idempotency_key, t) ==
    IF ~use THEN [rec |-> NoRecord, cache |-> c]
    ELSE LET g == LRU_get(c, idempotency_key)
         IN  IF g.item = NoRecord THEN [rec |-> NoRecord, cache |-> g.cache]
             ELSE IF ~is_expired(g.item, t) THEN [rec |-> g.item, cache |-> g.cache]
             ELSE [rec |-> NoRecord, cache |-> _delete_from_cache(use, g.cache, idempotency_key).cache]

(***************************************************************************)
(* BasePersistenceLayer: the public methods.  Each yields its outcome      *)
(* (out: "ok" or the name of the raised exception; rec: the returned       *)
(* record), the store and cache it leaves, and the store operation it      *)
(* called.                                                                 *)
(***************************************************************************)
Outcome(out, rec, st, c, call) ==
    [out |-> out, rec |-> rec, store |-> st, cache |-> c, call |-> call]

\* A slip: the response is not passed on to the record.
save_success_without_response(st, c, use, enabled, t, event, result) ==
    LET data_record == DataRecord(_get_hashed_idempotency_key(event),
                                  STATUS_CONSTANTS.COMPLETED,
                                  _get_expiry_timestamp(t),
                                  <<>>,
                                  _get_hashed_payload(enabled, event))
        st2 == _update_record(st, data_record)
        s == _save_to_cache(use, c, data_record, t)
    IN  Outcome(s.out, NoRecord, st2, s.cache, "_update_record")

\* A slip: the COMPLETED record keeps the expiry of the record it replaces.
save_success_inherits_expiry(st, c, use, enabled, t, event, result) ==
    LET idempotency_key == _get_hashed_idempotency_key(event)
        data_record == DataRecord(idempotency_key,
                                  STATUS_CONSTANTS.COMPLETED,
                                  IF st[idempotency_key] # NoRecord
                                  THEN st[idempotency_key].expiry_timestamp
                                  ELSE _get_expiry_timestamp(t),
                                  json_dumps(result),
                                  _get_hashed_payload(enabled, event))
        st2 == _update_record(st, data_record)
        s == _save_to_cache(use, c, data_record, t)
    IN  Outcome(s.out, NoRecord, st2, s.cache, "_update_record")

save_success(st, c, use, enabled, t, event, result) ==
    LET response_data == json_dumps(result)
        data_record == DataRecord(_get_hashed_idempotency_key(event),
                                  STATUS_CONSTANTS.COMPLETED,
                                  _get_expiry_timestamp(t),
                                  response_data,
                                  _get_hashed_payload(enabled, event))
        st2 == _update_record(st, data_record)
        s == _save_to_cache(use, c, data_record, t)
    IN  Outcome(s.out, NoRecord, st2, s.cache, "_update_record")

\* save_inprogress, lines 314-319: the record it builds.
save_inprogress_record(enabled, t, event) ==
    DataRecord(_get_hashed_idempotency_key(event),
               STATUS_CONSTANTS.INPROGRESS,
               _get_expiry_timestamp(t),
               <<>>,
               _get_hashed_payload(enabled, event))

\* A slip: the record is written with _update_record, which never refuses.
save_inprogress_put_unconditional(st, data_record, t) ==
    [out |-> "ok", store |-> _update_record(st, data_record)]

\* save_inprogress, line 326: its one store call.
save_inprogress_put(st, data_record, t) == _put_record(st, data_record, t)

\* A slip: the error of the store's insert is swallowed.
save_inprogress_swallows(st, c, use, enabled, t, event) ==
    LET data_record == save_inprogress_record(enabled, t, event)
        r == _retrieve_from_cache(use, c, data_record.idempotency_key, t)
        put == save_inprogress_put(st, data_record, t)
    IN  IF r.rec # NoRecord
        THEN Outcome("IdempotencyItemAlreadyExistsError", NoRecord, st, r.cache, "none")
        ELSE Outcome("ok", NoRecord, put.store, r.cache, "_put_record")

save_inprogress(st, c, use, enabled, t, event) ==
    LET data_record == save_inprogress_record(enabled, t, event)
        r == _retrieve_from_cache(use, c, data_record.idempotency_key, t)
        put == save_inprogress_put(st, data_record, t)
    IN  IF r.rec # NoRecord
        THEN Outcome("IdempotencyItemAlreadyExistsError", NoRecord, st, r.cache, "none")
        ELSE Outcome(put.out, NoRecord, put.store, r.cache, "_put_record")

delete_record(st, c, use, event) ==
    LET data_record == DataRecord(_get_hashed_idempotency_key(event), "", NoneInt, <<>>, <<>>)
        st2 == _delete_record(st, data_record)
        d == _delete_from_cache(use, c, data_record.idempotency_key)
    IN  Outcome(d.out, NoRecord, st2, d.cache, "_delete_record")

\* A slip: a record found in the cache is returned without validation.
get_record_unvalidated_hit(st, c, use, enabled, t, event) ==
    LET idempotency_key == _get_hashed_idempotency_key(event)
        r == _retrieve_from_cache(use, c, idempotency_key, t)
        g == _get_record(st, idempotency_key)
        s == _save_to_cache(use, r.cache, g.rec, t)
    IN  IF r.rec # NoRecord
        THEN Outcome("ok", r.rec, st, r.cache, "none")
        ELSE IF g.out # "ok"
             THEN Outcome(g.out, NoRecord, st, r.cache, "_get_record")
        ELSE IF s.out # "ok"
             THEN Outcome(s.out, NoRecord, st, s.cache, "_get_record")
        ELSE IF _validate_payload(enabled, event, g.rec) # "ok"
             THEN Outcome(_validate_payload(enabled, event, g.rec), NoRecord, st, s.cache, "_get_record")
        ELSE Outcome("ok", g.rec, st, s.cache, "_get_record")

get_record(st, c, use, enabled, t, event) ==
    LET idempotency_key == _get_hashed_idempotency_key(event)
        r == _retrieve_from_cache(use, c, idempotency_key, t)
        g == _get_record(st, idempotency_key)
        s == _save_to_cache(use, r.cache, g.rec, t)
    IN  IF r.rec # NoRecord
        THEN IF _validate_payload(enabled, event, r.rec) # "ok"
             THEN Outcome(_validate_payload(enabled, event, r.rec), NoRecord, st, r.cache, "none")
             ELSE Outcome("ok", r.rec, st, r.cache, "none")
        ELSE IF g.out # "ok"
             THEN Outcome(g.out, NoRecord, st, r.cache, "_get_record")
        ELSE IF s.out # "ok"
             THEN Outcome(s.out, NoRecord, st, s.cache, "_get_record")
        ELSE IF _validate_payload(enabled, event, g.rec) # "ok"
             THEN Outcome(_validate_payload(enabled, event, g.rec), NoRecord, st, s.cache, "_get_record")
        ELSE Outcome("ok", g.rec, st, s.cache, "_get_record")

(***************************************************************************)
(* State.                                                                  *)
(*   now      the wall clock (seconds), read by callers and by the store   *)
(*   store    the durable store: key -> record or NoRecord                 *)
(*   cache    each process's LRUDict                                       *)
(*   use_local_cache, payload_validation_enabled   construction settings   *)
(*   last     the most recent call: method, caller, event, outcome         *)
(*   attempt  each caller's position in the wrapper's protocol             *)
(*            (used by SpecCaller only)                                    *)
(***************************************************************************)
VARIABLES now, store, cache, use_local_cache, payload_validation_enabled, last, attempt

vars == <<now, store, cache, use_local_cache, payload_validation_enabled, last, attempt>>

config == <<use_local_cache, payload_validation_enabled>>

NoEvent == JNull

Call(op, p, event, r) ==
    [op |-> op, p |-> p, event |-> event, out |-> r.out, rec |-> r.rec, call |-> r.call]

Idle == [phase |-> "idle", event |-> NoEvent, record |-> NoRecord]

Init ==
    /\ now = 0
    /\ store = [k \in Keys |-> NoRecord]
    /\ cache = [p \in Procs |-> <<>>]
    /\ use_local_cache \in CacheSettings
    /\ payload_validation_enabled \in BOOLEAN
    /\ last = Call("init", "p1", NoEvent, Outcome("ok", NoRecord, store, <<>>, "none"))
    /\ attempt = [p \in Procs |-> Idle]

Apply(op, p, event, r) ==
    /\ store' = r.store
    /\ cache' = [cache EXCEPT ![p] = r.cache]
    /\ last' = Call(op, p, event, r)
    /\ UNCHANGED <<now, config>>

\* The clock is bounded: no record is written with an expiry beyond MaxClock.
CanWrite == _get_expiry_timestamp(now) <= MaxClock

SaveInprogress(p, event) ==
    /\ CanWrite
    /\ Apply("save_inprogress", p, event,
             save_inprogress(store, cache[p], use_local_cache[p], payload_validation_enabled, now, event))
    /\ UNCHANGED attempt

SaveSuccess(p, event, result) ==
    /\ CanWrite
    /\ Apply("save_success", p, event,
             save_success(store, cache[p], use_local_cache[p], payload_validation_enabled, now, event, result))
    /\ UNCHANGED attempt

DeleteRecord(p, event) ==
    /\ Apply("delete_record", p, event,
             delete_record(store, cache[p], use_local_cache[p], event))
    /\ UNCHANGED attempt

GetRecord(p, event) ==
    /\ Apply("get_record", p, event,
             get_record(store, cache[p], use_local_cache[p], payload_validation_enabled, now, event))
    /\ UNCHANGED attempt

Tick ==
    /\ now < MaxClock
    /\ now' = now + 1
    /\ UNCHANGED <<store, cache, config, last, attempt>>

Next ==
    \/ \E p \in Procs, event \in Events : SaveInprogress(p, event)
    \/ \E p \in Procs, event \in Events : \E result \in Results(event) : SaveSuccess(p, event, result)
    \/ \E p \in Procs, event \in Events : DeleteRecord(p, event)
    \/ \E p \in Procs, event \in Events : GetRecord(p, event)
    \/ Tick

Spec == Init /\ [][Next]_vars

(***************************************************************************)
(* SpecCaller: callers that follow the wrapper's protocol.  A caller       *)
(* begins an attempt with save_inprogress, runs its work only when that    *)
(* returned without error, and then reports once, save_success or          *)
(* delete_record, for the event it began with.  save_inprogress is split   *)
(* at its store call, so two callers can both pass the cache lookup before *)
(* either inserts, and the clock can advance in between.                   *)
(***************************************************************************)
BeginLookup(p, event) ==
    LET data_record == save_inprogress_record(payload_validation_enabled, now, event)
        r == _retrieve_from_cache(use_local_cache[p], cache[p], data_record.idempotency_key, now)
    IN  /\ attempt[p].phase = "idle"
        /\ CanWrite
        /\ cache' = [cache EXCEPT ![p] = r.cache]
        /\ IF r.rec # NoRecord
           THEN /\ last' = Call("save_inprogress", p, event,
                                Outcome("IdempotencyItemAlreadyExistsError", NoRecord, store, r.cache, "none"))
                /\ UNCHANGED attempt
           ELSE /\ attempt' = [attempt EXCEPT ![p] = [phase |-> "put", event |-> event, record |-> data_record]]
                /\ UNCHANGED last
        /\ UNCHANGED <<now, store, config>>

BeginInsert(p) ==
    LET put == save_inprogress_put(store, attempt[p].record, now)
    IN  /\ attempt[p].phase = "put"
        /\ store' = put.store
        /\ last' = Call("save_inprogress", p, attempt[p].event,
                        Outcome(put.out, NoRecord, put.store, cache[p], "_put_record"))
        /\ attempt' = [attempt EXCEPT ![p] = IF put.out = "ok"
                                             THEN [attempt[p] EXCEPT !.phase = "work"]
                                             ELSE Idle]
        /\ UNCHANGED <<now, cache, config>>

ReportSuccess(p) ==
    /\ attempt[p].phase = "work"
    /\ CanWrite
    /\ \E result \in Results(attempt[p].event) :
          Apply("save_success", p, attempt[p].event,
                save_success(store, cache[p], use_local_cache[p], payload_validation_enabled, now,
                             attempt[p].event, result))
    /\ attempt' = [attempt EXCEPT ![p] = Idle]

ReportFailure(p) ==
    /\ attempt[p].phase = "work"
    /\ Apply("delete_record", p, attempt[p].event,
             delete_record(store, cache[p], use_local_cache[p], attempt[p].event))
    /\ attempt' = [attempt EXCEPT ![p] = Idle]

Lookup(p, event) ==
    /\ attempt[p].phase = "idle"
    /\ GetRecord(p, event)

NextCaller ==
    \/ \E p \in Procs, event \in Events : BeginLookup(p, event)
    \/ \E p \in Procs : BeginInsert(p)
    \/ \E p \in Procs : ReportSuccess(p)
    \/ \E p \in Procs : ReportFailure(p)
    \/ \E p \in Procs, event \in Events : Lookup(p, event)
    \/ Tick

SpecCaller == Init /\ [][NextCaller]_vars

(***************************************************************************)
(* SpecStatus: DataRecord.status as a function of a record and the clock.  *)
(* The record is held in last.rec; every clock value, every expiry from    *)
(* None and 0 up to MaxExpiry and every status string is tried.            *)
(***************************************************************************)
MaxExpiry == 4

RawStatuses == StatusValues \cup {"UNKNOWN"}

InitStatus ==
    /\ now \in 0..MaxClock
    /\ store = [k \in Keys |-> NoRecord]
    /\ cache = [p \in Procs |-> <<>>]
    /\ use_local_cache = [p \in Procs |-> FALSE]
    /\ payload_validation_enabled = FALSE
    /\ attempt = [p \in Procs |-> Idle]
    /\ \E raw \in RawStatuses, expiry \in {NoneInt} \cup 0..MaxExpiry :
          last = [op |-> "record", p |-> "p1", event |-> NoEvent, out |-> "",
                  rec |-> DataRecord(<<"md5", "1">>, raw, expiry, <<>>, <<>>),
                  call |-> "none"]

ReadStatus ==
    /\ last.op = "record"
    /\ last' = [last EXCEPT !.op = "status", !.out = status(last.rec, now)]
    /\ UNCHANGED <<now, store, cache, config, attempt>>

NextStatus == ReadStatus

SpecStatus == InitStatus /\ [][NextStatus]_vars

(***************************************************************************)
(* Shorthands for the claims.                                              *)
(***************************************************************************)
KeyOf(event) == _get_hashed_idempotency_key(event)

\* A record that blocks its key: present and not expired.
Live(rec, t) == rec # NoRecord /\ ~is_expired(rec, t)

Cached(p, key) == LRU_lookup(cache[p], key)

\* A step that is a call of a public method, described by last': every
\* method leaves the clock alone, and Tick changes nothing else.
IsCall == now' = now

(***************************************************************************)
(* C1  At most once per key.  A save_inprogress returns without error only *)
(* when the store holds no record for the key or an expired one, and it    *)
(* leaves its own fresh INPROGRESS record there; and a live record leaves  *)
(* the store only through delete_record for its key, and is replaced only  *)
(* by a record that expires no earlier.  So between two successful         *)
(* save_inprogress for one key lies a delete_record or the first record's  *)
(* expiry.                                                                 *)
(***************************************************************************)
C1_AtMostOnce ==
    [][ /\ (IsCall /\ last'.op = "save_inprogress" /\ last'.out = "ok")
           => /\ ~Live(store[KeyOf(last'.event)], now)
              /\ store'[KeyOf(last'.event)]._status = STATUS_CONSTANTS.INPROGRESS
              /\ store'[KeyOf(last'.event)].expiry_timestamp = now + expires_after_seconds
        /\ \A k \in Keys :
              Live(store[k], now)
              => /\ store'[k] = NoRecord
                    => (last'.op = "delete_record" /\ KeyOf(last'.event) = k)
                 /\ store'[k] # NoRecord
                    => store'[k].expiry_timestamp >= store[k].expiry_timestamp
      ]_vars

\* A second grant for a key after the first one expired: some cache still
\* holds the first, expired INPROGRESS record.
C1_Witness ==
    /\ last.op = "save_inprogress"
    /\ last.out = "ok"
    /\ \E p \in Procs :
          /\ Cached(p, KeyOf(last.event))._status = STATUS_CONSTANTS.INPROGRESS
          /\ Cached(p, KeyOf(last.event)).expiry_timestamp
                < store[KeyOf(last.event)].expiry_timestamp

C4_DeleteAfterBegin ==
    [][ (/\ IsCall
         /\ last.op = "save_inprogress"
         /\ last.out = "ok"
         /\ last'.op = "delete_record"
         /\ last'.p = last.p
         /\ last'.event = last.event)
        => /\ last'.out = "ok"
           /\ store'[KeyOf(last.event)] = NoRecord
           /\ ~LRU_contains(cache'[last.p], KeyOf(last.event))
      ]_vars

(***************************************************************************)
(* C5  delete_record never raises and leaves the key absent from the store *)
(* and from the caller's cache.                                            *)
(***************************************************************************)
C5_DeleteAlwaysSafe ==
    last.op = "delete_record"
    => /\ last.out = "ok"
       /\ store[KeyOf(last.event)] = NoRecord
       /\ ~LRU_contains(cache[last.p], KeyOf(last.event))

(***************************************************************************)
(* C6  No entry of a local cache has _status INPROGRESS, and get_record    *)
(* returns no such record from the cache.                                  *)
(***************************************************************************)
C6_NoInProgressCached ==
    /\ \A p \in Procs : \A i \in 1..Len(cache[p]) :
          cache[p][i]._status # STATUS_CONSTANTS.INPROGRESS
    /\ (last.op = "get_record" /\ last.call = "none" /\ last.out = "ok")
       => last.rec._status # STATUS_CONSTANTS.INPROGRESS

(***************************************************************************)
(* C7  The cache is advisory: in every reachable state every call has the  *)
(* same outcome (signal, returned record) and leaves the same store as the *)
(* same call made with use_local_cache = False.                            *)
(***************************************************************************)
SameOutcome(a, b) == a.out = b.out /\ a.rec = b.rec /\ a.store = b.store

C7_CacheAdvisory ==
    \A p \in Procs, event \in Events :
       /\ SameOutcome(save_inprogress(store, cache[p], use_local_cache[p], payload_validation_enabled, now, event),
                      save_inprogress(store, <<>>, FALSE, payload_validation_enabled, now, event))
       /\ SameOutcome(get_record(store, cache[p], use_local_cache[p], payload_validation_enabled, now, event),
                      get_record(store, <<>>, FALSE, payload_validation_enabled, now, event))
       /\ SameOutcome(delete_record(store, cache[p], use_local_cache[p], event),
                      delete_record(store, <<>>, FALSE, event))
       /\ \A result \in Results(event) :
             SameOutcome(save_success(store, cache[p], use_local_cache[p], payload_validation_enabled, now, event, result),
                         save_success(store, <<>>, FALSE, payload_validation_enabled, now, event, result))

(***************************************************************************)
(* C8  get_record that finds a record for the key (a live one in the       *)
(* caller's cache, else the store's) raises IdempotencyValidationError and *)
(* returns nothing when validation is enabled and the record's             *)
(* payload_hash differs from the hash of the event's validated part; it    *)
(* does not raise it when they are equal or validation is disabled.        *)
(***************************************************************************)
C8_ValidationIsHard ==
    [][ (IsCall /\ last'.op = "get_record")
        => LET event == last'.event
               k == KeyOf(event)
               found == IF Live(Cached(last'.p, k), now) THEN Cached(last'.p, k) ELSE store[k]
               fingerprint == _generate_hash(jmespath_search(payload_validation_jmespath, event))
           IN  found # NoRecord
               => /\ (payload_validation_enabled /\ found.payload_hash # fingerprint)
                     => (last'.out = "IdempotencyValidationError" /\ last'.rec = NoRecord)
                  /\ (~payload_validation_enabled \/ found.payload_hash = fingerprint)
                     => (last'.out = "ok" /\ last'.rec = found)
      ]_vars

\* A mismatch caught on a record served by the cache.
C8_Witness ==
    /\ last.op = "get_record"
    /\ last.out = "IdempotencyValidationError"
    /\ last.call = "none"
    /\ Live(store[KeyOf(last.event)], now)

C9_SelfHealing ==
    [][ LET k == KeyOf(last'.event)
        IN  (/\ IsCall
             /\ last'.op = "save_inprogress"
             /\ store[k]._status = STATUS_CONSTANTS.INPROGRESS
             /\ now > store[k].expiry_timestamp)
            => /\ last'.out = "ok"
               /\ last'.call = "_put_record"
               /\ store'[k]._status = STATUS_CONSTANTS.INPROGRESS
               /\ store'[k].expiry_timestamp = now + expires_after_seconds
               /\ store'[k].expiry_timestamp > store[k].expiry_timestamp
               /\ Live(store'[k], now)
      ]_vars

\* A retry that replaced an expired INPROGRESS record, which the other
\* process still holds, expired, in its cache.
C9_Witness ==
    /\ last.op = "save_inprogress"
    /\ last.out = "ok"
    /\ last.p = "p2"
    /\ store[KeyOf(last.event)]._status = STATUS_CONSTANTS.INPROGRESS
    /\ store[KeyOf(last.event)].expiry_timestamp = now + expires_after_seconds
    /\ Cached("p1", KeyOf(last.event))._status = STATUS_CONSTANTS.INPROGRESS
    /\ now > Cached("p1", KeyOf(last.event)).expiry_timestamp

(***************************************************************************)
(* C10  Derived status (SpecStatus).  For a record whose _status is        *)
(* INPROGRESS or COMPLETED, status is EXPIRED if expiry_timestamp is set   *)
(* and now > expiry_timestamp, and _status otherwise.                      *)
(***************************************************************************)
C10_DerivedStatus ==
    (/\ last.op = "status"
     /\ last.rec._status \in {STATUS_CONSTANTS.INPROGRESS, STATUS_CONSTANTS.COMPLETED})
    => last.out = IF last.rec.expiry_timestamp # NoneInt /\ now > last.rec.expiry_timestamp
                  THEN STATUS_CONSTANTS.EXPIRED
                  ELSE last.rec._status

(***************************************************************************)
(* SpecIntegrity: get_record against a store whose record for one key was  *)
(* written by someone else: any status string, any expiry, any clock.      *)
(***************************************************************************)
InitIntegrity ==
    /\ now \in 0..MaxClock
    /\ cache = [p \in Procs |-> <<>>]
    /\ use_local_cache \in CacheSettings
    /\ payload_validation_enabled \in BOOLEAN
    /\ attempt = [p \in Procs |-> Idle]
    /\ \E k \in Keys, raw \in RawStatuses, expiry \in {NoneInt} \cup 0..MaxExpiry :
          store = [x \in Keys |-> IF x = k THEN DataRecord(k, raw, expiry, <<>>, <<>>) ELSE NoRecord]
    /\ last = Call("init", "p1", NoEvent, Outcome("ok", NoRecord, store, <<>>, "none"))

NextIntegrity ==
    \/ \E p \in Procs, event \in Events : GetRecord(p, event)
    \/ Tick

SpecIntegrity == InitIntegrity /\ [][NextIntegrity]_vars

(***************************************************************************)
(* C11  Integrity check (SpecIntegrity).  A get_record that fetches from   *)
(* the store a record whose _status is neither INPROGRESS nor COMPLETED    *)
(* raises IdempotencyInvalidStatusError, returns no record and leaves the  *)
(* record out of the caller's cache.                                       *)
(***************************************************************************)
C11_IntegrityCheck ==
    LET k == KeyOf(last.event)
    IN  (/\ last.op = "get_record"
         /\ last.call = "_get_record"
         /\ store[k] # NoRecord
         /\ store[k]._status \notin {STATUS_CONSTANTS.INPROGRESS, STATUS_CONSTANTS.COMPLETED})
        => /\ last.out = "IdempotencyInvalidStatusError"
           /\ last.rec = NoRecord
           /\ Cached(last.p, k) # store[k]

(***************************************************************************)
(* SpecHash: _generate_hash as a function of its input.  Two mappings x    *)
(* and y of up to MaxItems items are held in last and hashed; x is hashed  *)
(* twice.                                                                  *)
(***************************************************************************)
MaxItems == 2

HashItems == { Item(k, v) : k \in {"a", "b"}, v \in {1, 2} }

\* Python dicts: no key twice, items in insertion order.
Mappings ==
    { JObj(s) : s \in { s \in UNION { [1..n -> HashItems] : n \in 0..MaxItems } :
                        \A i, j \in 1..Len(s) : i # j => s[i].k # s[j].k } }

InitHash ==
    /\ now = 0
    /\ store = [k \in Keys |-> NoRecord]
    /\ cache = [p \in Procs |-> <<>>]
    /\ use_local_cache = [p \in Procs |-> FALSE]
    /\ payload_validation_enabled = FALSE
    /\ attempt = [p \in Procs |-> Idle]
    /\ \E x \in Mappings, y \in Mappings :
          last = [op |-> "input", x |-> x, y |-> y, hx |-> <<>>, hx_again |-> <<>>, hy |-> <<>>]

GenerateHash ==
    /\ last.op = "input"
    /\ last' = [last EXCEPT !.op = "_generate_hash",
                            !.hx = _generate_hash(last.x),
                            !.hx_again = _generate_hash(last.x),
                            !.hy = _generate_hash(last.y)]
    /\ UNCHANGED <<now, store, cache, config, attempt>>

NextHash == GenerateHash

SpecHash == InitHash /\ [][NextHash]_vars

\* The same key/value pairs, in whatever order.
SamePairs(x, y) ==
    { x.items[i] : i \in 1..Len(x.items) } = { y.items[i] : i \in 1..Len(y.items) }

(***************************************************************************)
(* C12  Hash determinism and order-insensitivity (SpecHash).               *)
(* _generate_hash of the same input twice gives the same digest, and two   *)
(* mappings with the same key/value pairs, in whatever insertion order,    *)
(* have the same digest.                                                   *)
(***************************************************************************)
C12_HashOrderInsensitive ==
    last.op = "_generate_hash"
    => /\ last.hx = last.hx_again
       /\ SamePairs(last.x, last.y) => last.hx = last.hy

(***************************************************************************)
(* C13  Per-key lifecycle (SpecCaller).  A live record of the store        *)
(* changes only when it is INPROGRESS and the caller whose save_inprogress *)
(* inserted it reports, to COMPLETED or to absent: a live COMPLETED record *)
(* is never deleted or overwritten, and a live INPROGRESS record is never  *)
(* completed or deleted by another caller.                                 *)
(***************************************************************************)
C13_Lifecycle ==
    [][ \A k \in Keys :
          (Live(store[k], now) /\ store'[k] # store[k])
          => /\ store[k]._status = STATUS_CONSTANTS.INPROGRESS
             /\ \E p \in Procs :
                   /\ attempt[p].phase = "work"
                   /\ attempt[p].record = store[k]
                   /\ last'.p = p
                   /\ attempt'[p] = Idle
             /\ \/ store'[k] = NoRecord
                \/ store'[k]._status = STATUS_CONSTANTS.COMPLETED
      ]_vars

(***************************************************************************)
(* C14  The cache mirrors the store (SpecCaller).  A live record held by a *)
(* process's cache is the record the store holds for its key, and a record *)
(* that get_record serves from the cache is the stored one.                *)
(***************************************************************************)
C14_CacheMirrorsStore ==
    /\ \A p \in Procs, k \in Keys :
          Live(Cached(p, k), now) => store[k] = Cached(p, k)
    /\ (last.op = "get_record" /\ last.call = "none" /\ last.out = "ok")
       => last.rec = store[KeyOf(last.event)]

(***************************************************************************)
(* SpecCacheRead: Spec, with each caller remembering in attempt the        *)
(* expired entry, if any, that its cache held for the key when it last     *)
(* called a method that reads the cache (save_inprogress, get_record).     *)
(***************************************************************************)
CacheRead(p, event) ==
    LET entry == LRU_lookup(cache[p], _get_hashed_idempotency_key(event))
    IN  IF use_local_cache[p] /\ entry # NoRecord /\ is_expired(entry, now)
        THEN [phase |-> "read", event |-> NoEvent, record |-> entry]
        ELSE Idle

ReadSaveInprogress(p, event) ==
    /\ CanWrite
    /\ Apply("save_inprogress", p, event,
             save_inprogress(store, cache[p], use_local_cache[p], payload_validation_enabled, now, event))
    /\ attempt' = [attempt EXCEPT ![p] = CacheRead(p, event)]

ReadGetRecord(p, event) ==
    /\ Apply("get_record", p, event,
             get_record(store, cache[p], use_local_cache[p], payload_validation_enabled, now, event))
    /\ attempt' = [attempt EXCEPT ![p] = CacheRead(p, event)]

NextCacheRead ==
    \/ \E p \in Procs, event \in Events : ReadSaveInprogress(p, event)
    \/ \E p \in Procs, event \in Events : ReadGetRecord(p, event)
    \/ \E p \in Procs, event \in Events : \E result \in Results(event) : SaveSuccess(p, event, result)
    \/ \E p \in Procs, event \in Events : DeleteRecord(p, event)
    \/ Tick

SpecCacheRead == Init /\ [][NextCacheRead]_vars

(***************************************************************************)
(* C15  Expired cache entries are misses (SpecCacheRead).  get_record      *)
(* returns from the cache only a record that is not expired at the time of *)
(* the call.  When the caller's cache holds an expired entry for the key,  *)
(* save_inprogress goes on to _put_record and get_record to _get_record,   *)
(* each with the outcome of the same call made without a cache, and the    *)
(* expired entry is gone from the cache: after save_inprogress the cache   *)
(* holds nothing for the key, after get_record nothing but the record just *)
(* fetched from the store.                                                 *)
(***************************************************************************)
C15_ExpiredEntryIsMiss ==
    [][ (IsCall /\ last'.op \in {"save_inprogress", "get_record"})
        => LET p == last'.p
               event == last'.event
               k == KeyOf(event)
               entry == Cached(p, k)
           IN  /\ (last'.op = "get_record" /\ last'.call = "none" /\ last'.out = "ok")
                  => (last'.rec = entry /\ Live(entry, now))
               /\ (use_local_cache[p] /\ entry # NoRecord /\ is_expired(entry, now))
                  => /\ last'.op = "save_inprogress"
                        => /\ last'.call = "_put_record"
                           /\ ~LRU_contains(cache'[p], k)
                           /\ LET plain == save_inprogress(store, <<>>, FALSE, payload_validation_enabled, now, event)
                              IN  last'.out = plain.out /\ store' = plain.store
                     /\ last'.op = "get_record"
                        => /\ last'.call = "_get_record"
                           /\ LRU_contains(cache'[p], k)
                              => (store[k] # NoRecord /\ cache'[p][Len(cache'[p])] = store[k])
                           /\ LET plain == get_record(store, <<>>, FALSE, payload_validation_enabled, now, event)
                              IN  last'.out = plain.out /\ last'.rec = plain.rec /\ store' = store
      ]_vars

\* save_inprogress by a caller whose cache held an expired entry for the key:
\* the store's insert was called and the entry is gone.
C15_Witness ==
    \E p \in Procs :
       /\ use_local_cache[p]
       /\ last.op = "save_inprogress" /\ last.p = p
       /\ attempt[p].phase = "read"
       /\ attempt[p].record.idempotency_key = KeyOf(last.event)
       /\ attempt[p].record._status = STATUS_CONSTANTS.COMPLETED
       /\ last.call = "_put_record"
       /\ last.out = "ok"
       /\ ~LRU_contains(cache[p], KeyOf(last.event))

(***************************************************************************)
(* C16  A cache hit does not touch the store.  get_record by a caller      *)
(* whose cache holds a live record for the key validates and returns that  *)
(* record without calling _get_record and leaves the store unchanged; the  *)
(* store is fetched only on a miss, and the fetched record is then put in  *)
(* the cache only if its _status is not INPROGRESS.                        *)
(***************************************************************************)
C16_CacheHitSkipsStore ==
    [][ (IsCall /\ last'.op = "get_record")
        => LET p == last'.p
               k == KeyOf(last'.event)
               entry == Cached(p, k)
           IN  /\ store' = store
               /\ Live(entry, now)
                  => /\ last'.call = "none"
                     /\ last'.out = _validate_payload(payload_validation_enabled, last'.event, entry)
                     /\ last'.out = "ok" => last'.rec = entry
               /\ last'.call = "_get_record" => ~Live(entry, now)
               /\ (last'.call = "_get_record" /\ LRU_contains(cache'[p], k))
                  => LRU_lookup(cache'[p], k)._status # STATUS_CONSTANTS.INPROGRESS
      ]_vars

(***************************************************************************)
(* SpecFaulty: Spec with a store whose update and delete can fail.  A      *)
(* failing store operation raises (the opaque "StoreError") and leaves the *)
(* store as it was; the exception leaves the method at the store call.     *)
(***************************************************************************)
\* A slip: the cache is written before the store.
save_success_caches_first(st, c, use, enabled, t, event, result) ==
    LET data_record == DataRecord(_get_hashed_idempotency_key(event),
                                  STATUS_CONSTANTS.COMPLETED,
                                  _get_expiry_timestamp(t),
                                  json_dumps(result),
                                  _get_hashed_payload(enabled, event))
    IN  Outcome("StoreError", NoRecord, st, _save_to_cache(use, c, data_record, t).cache, "_update_record")

\* save_success when _update_record (line 301) raises: line 303 is not reached.
save_success_store_raises(st, c, use, enabled, t, event, result) ==
    Outcome("StoreError", NoRecord, st, c, "_update_record")

\* delete_record when _delete_record (line 345) raises: line 347 is not reached.
delete_record_store_raises(st, c, use, event) ==
    Outcome("StoreError", NoRecord, st, c, "_delete_record")

SaveSuccessStoreFails(p, event, result) ==
    /\ CanWrite
    /\ Apply("save_success", p, event,
             save_success_store_raises(store, cache[p], use_local_cache[p], payload_validation_enabled,
                                       now, event, result))
    /\ UNCHANGED attempt

DeleteRecordStoreFails(p, event) ==
    /\ Apply("delete_record", p, event,
             delete_record_store_raises(store, cache[p], use_local_cache[p], event))
    /\ UNCHANGED attempt

NextFaulty ==
    \/ \E p \in Procs, event \in Events : SaveInprogress(p, event)
    \/ \E p \in Procs, event \in Events : \E result \in Results(event) : SaveSuccess(p, event, result)
    \/ \E p \in Procs, event \in Events : \E result \in Results(event) : SaveSuccessStoreFails(p, event, result)
    \/ \E p \in Procs, event \in Events : DeleteRecord(p, event)
    \/ \E p \in Procs, event \in Events : DeleteRecordStoreFails(p, event)
    \/ \E p \in Procs, event \in Events : GetRecord(p, event)
    \/ Tick

SpecFaulty == Init /\ [][NextFaulty]_vars

(***************************************************************************)
(* C17  A store failure leaves the cache untouched (SpecFaulty).  When the *)
(* store operation of save_success or delete_record fails, the failure is  *)
(* the outcome of the call, the store operation was the call's only one,   *)
(* and every cache and the store are exactly as before.  When they         *)
(* succeed, save_success has written the store before the cache: whenever  *)
(* a cache gains a COMPLETED record, the store holds that record.          *)
(***************************************************************************)
C17_StoreFailureKeepsCache ==
    [][ /\ (IsCall /\ last'.op \in {"save_success", "delete_record"} /\ last'.out = "StoreError")
           => /\ cache' = cache
              /\ store' = store
              /\ last'.rec = NoRecord
              /\ last'.call = IF last'.op = "save_success" THEN "_update_record" ELSE "_delete_record"
        /\ (IsCall /\ last'.op = "save_success" /\ last'.out = "ok")
           => /\ store'[KeyOf(last'.event)]._status = STATUS_CONSTANTS.COMPLETED
              /\ use_local_cache[last'.p]
                 => LRU_lookup(cache'[last'.p], KeyOf(last'.event)) = store'[KeyOf(last'.event)]
        /\ (IsCall /\ last'.op = "delete_record" /\ last'.out # "StoreError")
           => store'[KeyOf(last'.event)] = NoRecord
        /\ \A p \in Procs, k \in Keys :
              (/\ LRU_lookup(cache'[p], k) # Cached(p, k)
               /\ LRU_lookup(cache'[p], k)._status = STATUS_CONSTANTS.COMPLETED)
              => store'[k] = LRU_lookup(cache'[p], k)
      ]_vars

\* A failed save_success by a caching caller: the store still holds the
\* INPROGRESS record and the caller's cache holds nothing for the key.
C17_Witness ==
    /\ last.op = "save_success"
    /\ last.out = "StoreError"
    /\ use_local_cache[last.p]
    /\ store[KeyOf(last.event)]._status = STATUS_CONSTANTS.INPROGRESS
    /\ Live(store[KeyOf(last.event)], now)
    /\ ~LRU_contains(cache[last.p], KeyOf(last.event))

(***************************************************************************)
(* C18  Fresh expiry on every write.  Every record that save_inprogress or *)
(* save_success writes to the store has expiry_timestamp = now +           *)
(* expires_after_seconds, now being the clock at that call: the COMPLETED  *)
(* record does not inherit the expiry of the INPROGRESS record.  As the    *)
(* clock never goes back, the expiry stored for a key never decreases from *)
(* one record to the record that replaces it.                              *)
(***************************************************************************)
C18_FreshExpiry ==
    [][ /\ (/\ IsCall
            /\ \/ last'.op = "save_inprogress" /\ last'.out = "ok"
               \/ last'.op = "save_success")
           => /\ store'[KeyOf(last'.event)].expiry_timestamp = now + expires_after_seconds
              /\ store'[KeyOf(last'.event)].expiry_timestamp = _get_expiry_timestamp(now)
        /\ \A k \in Keys :
              /\ (store'[k] # store[k] /\ store'[k] # NoRecord)
                 => /\ last'.op \in {"save_inprogress", "save_success"}
                    /\ store'[k].expiry_timestamp = now + expires_after_seconds
              /\ (store[k] # NoRecord /\ store'[k] # NoRecord)
                 => store'[k].expiry_timestamp >= store[k].expiry_timestamp
      ]_vars

\* save_success later than the save_inprogress it answers: the COMPLETED
\* record expires later than the INPROGRESS record, which the other process
\* still holds in its cache.
C18_Witness ==
    /\ last.op = "save_success"
    /\ last.p = "p2"
    /\ store[KeyOf(last.event)]._status = STATUS_CONSTANTS.COMPLETED
    /\ store[KeyOf(last.event)].expiry_timestamp = now + expires_after_seconds
    /\ Cached("p1", KeyOf(last.event))._status = STATUS_CONSTANTS.INPROGRESS
    /\ Cached("p1", KeyOf(last.event)).expiry_timestamp < store[KeyOf(last.event)].expiry_timestamp

(***************************************************************************)
(* SpecUnmatched: the calls of Spec on events of which two have no "id"    *)
(* field, so that event_key_jmespath matches nothing in them.              *)
(***************************************************************************)
EventsUnmatched ==
    { JObj(<<Item("body", 1)>>),
      JObj(<<Item("body", 2)>>),
      JObj(<<Item("id", 1), Item("body", 1)>>) }

\* The store's key space: the hashes of the extracted values and of the
\* whole events.
KeysUnmatched ==
    { _generate_hash(jmespath_search(event_key_jmespath, e)) : e \in EventsUnmatched }
    \cup { _generate_hash(e) : e \in EventsUnmatched }

InitUnmatched ==
    /\ now = 0
    /\ store = [k \in KeysUnmatched |-> NoRecord]
    /\ cache = [p \in Procs |-> <<>>]
    /\ use_local_cache \in CacheSettings
    /\ payload_validation_enabled \in BOOLEAN
    /\ last = Call("init", "p1", NoEvent, Outcome("ok", NoRecord, store, <<>>, "none"))
    /\ attempt = [p \in Procs |-> Idle]

NextUnmatched ==
    \/ \E p \in Procs, event \in EventsUnmatched : SaveInprogress(p, event)
    \/ \E p \in Procs, event \in EventsUnmatched : \E result \in Results(event) : SaveSuccess(p, event, result)
    \/ \E p \in Procs, event \in EventsUnmatched : DeleteRecord(p, event)
    \/ \E p \in Procs, event \in EventsUnmatched : GetRecord(p, event)
    \/ Tick

SpecUnmatched == InitUnmatched /\ [][NextUnmatched]_vars

(***************************************************************************)
(* C19  Unmatched key query (SpecUnmatched).  For an event in which        *)
(* event_key_jmespath matches nothing, key derivation does not fail: the   *)
(* key is the hash of None, the same for every such event.  So             *)
(* save_inprogress for such an event, while the store holds a live record  *)
(* under that key (put there for whichever such event), raises             *)
(* IdempotencyItemAlreadyExistsError and changes nothing; with no live     *)
(* record there and none in the caller's cache it inserts its record under *)
(* that key.                                                               *)
(***************************************************************************)
C19_UnmatchedCollide ==
    [][ (/\ IsCall
         /\ last'.op = "save_inprogress"
         /\ jmespath_search(event_key_jmespath, last'.event) = JNull)
        => LET k == _generate_hash(JNull)
           IN  /\ _get_hashed_idempotency_key(last'.event) = k
               /\ last'.out \in {"ok", "IdempotencyItemAlreadyExistsError"}
               /\ Live(store[k], now)
                  => /\ last'.out = "IdempotencyItemAlreadyExistsError"
                     /\ store' = store
               /\ (~Live(store[k], now) /\ ~Live(LRU_lookup(cache[last'.p], k), now))
                  => /\ last'.out = "ok"
                     /\ store' = [store EXCEPT ![k] =
                                     save_inprogress_record(payload_validation_enabled, now, last'.event)]
      ]_vars

\* save_inprogress for one unmatched event refused on the live INPROGRESS
\* record of a different unmatched event (its payload hash is the other's).
C19_Witness ==
    /\ last.op = "save_inprogress"
    /\ last.out = "IdempotencyItemAlreadyExistsError"
    /\ jmespath_search(event_key_jmespath, last.event) = JNull
    /\ payload_validation_enabled
    /\ store[_generate_hash(JNull)]._status = STATUS_CONSTANTS.INPROGRESS
    /\ Live(store[_generate_hash(JNull)], now)
    /\ store[_generate_hash(JNull)].payload_hash # _get_hashed_payload(TRUE, last.event)

=============================================================================
